---- MODULE Spec2Model ----
(***************************************************************************)
(* Model of cardgame.py: the Card / Deck / AnimatedCard classes and the    *)
(* game loop of the __main__ block (event handlers for the Draw, Reshuffle *)
(* and Quit buttons, followed by the per-frame "Update animations" loop).  *)
(*                                                                         *)
(* One frame of the loop is: zero or more events (Draw, Reshuffle, Quit),  *)
(* then one Tick.  The render-only state (message_timer, shuffle_time,     *)
(* hover flags, the pygame surfaces) is read by no handler and is left     *)
(* out; message and shuffling are kept because the handlers write them.    *)
(*                                                                         *)
(* Spec is the game loop.  AnimSpec is the AnimatedCard class on its own,  *)
(* for the laws of update, is_complete and get_position at any duration.   *)
(* The flip angle is computed in doubles, which are modelled bit for bit.  *)
(***************************************************************************)
EXTENDS Integers, Sequences, FiniteSets, TLC

(***************************************************************************)
(* Bounds of the model (not program constants).                            *)
(***************************************************************************)
\* at most this many AnimatedCard objects are in animated_cards at once
MaxInFlight == 2
\* while animations are in flight, a draw is issued only if fewer than this
\* many cards have left the deck since it was last shuffled
MaxDrawn == 3
\* while animations are in flight, clicks are issued at this many evenly
\* spread ages of each of them (Duration: at every age)
ClickPhases == 6
\* random.shuffle is a choice among this many permutations of the 52 cards
NumShuffles == 2
\* AnimatedCard objects are constructed with durations 1..MaxAnimDuration and
\* for hand slots 0..MaxSlot when the class is exercised on its own
MaxAnimDuration == 30
MaxSlot == 2
\* the width of a limb of the long arithmetic below (a choice of
\* representation: the results do not depend on it)
LimbBits == 16

(***************************************************************************)
(* Program constants.                                                      *)
(***************************************************************************)
\* the significand of a Python float (an IEEE 754 double) has 53 bits
Precision == 53
Duration == 30
DECK_X == 850
DECK_Y == 250
HAND_X == 50
HAND_Y == 200
SLOT_W == 70

\* class Suit / class Rank, in definition (= iteration) order
Suit == <<"HEARTS", "DIAMONDS", "CLUBS", "SPADES">>
Rank == <<"ACE", "TWO", "THREE", "FOUR", "FIVE", "SIX", "SEVEN", "EIGHT",
          "NINE", "TEN", "JACK", "QUEEN", "KING">>

\* Card(suit, rank)
Card(suit, rank) == [suit |-> suit, rank |-> rank]

\* the values of the enum members: a string is the sequence of its characters,
\* and the four suit symbols are named by their code points
SuitValue ==
    [HEARTS |-> <<"U+2665">>, DIAMONDS |-> <<"U+2666">>,
     CLUBS |-> <<"U+2663">>, SPADES |-> <<"U+2660">>]
RankValue ==
    [ACE |-> <<"A">>, TWO |-> <<"2">>, THREE |-> <<"3">>, FOUR |-> <<"4">>,
     FIVE |-> <<"5">>, SIX |-> <<"6">>, SEVEN |-> <<"7">>, EIGHT |-> <<"8">>,
     NINE |-> <<"9">>, TEN |-> <<"1", "0">>, JACK |-> <<"J">>,
     QUEEN |-> <<"Q">>, KING |-> <<"K">>]

\* __repr__ without the suit (mutant of repr)
repr_RankOnly(card) == RankValue[card.rank]

\* Card.__repr__
repr(card) == RankValue[card.rank] \o SuitValue[card.suit]

\* the value draw_card returns on an empty deck
None == [suit |-> "None", rank |-> "None"]

Cards == {Card(Suit[s], Rank[r]) : s \in 1..Len(Suit), r \in 1..Len(Rank)}

\* the two nested loops of _initialize_deck, before random.shuffle
OrderedDeck ==
    [i \in 1..(Len(Suit) * Len(Rank)) |->
        Card(Suit[((i - 1) \div Len(Rank)) + 1], Rank[((i - 1) % Len(Rank)) + 1])]

\* outcome k of random.shuffle(self.cards): a permutation of the list
\* (odd k: rotation by 5*k places; even k: the reversal of that rotation)
shuffle(cards, k) ==
    LET n == Len(cards)
        rot == [i \in 1..n |-> cards[((i - 1 + 5 * k) % n) + 1]]
    IN IF k % 2 = 1 THEN rot ELSE [i \in 1..n |-> rot[n + 1 - i]]

ShuffleOutcomes == 1..NumShuffles

\* Deck._initialize_deck on an empty self.cards; Deck.__init__ and Deck.reset
\* both clear self.cards first
initialize_deck(k) == shuffle(OrderedDeck, k)

\* reset without "self.cards = []": the new cards are appended to the old
\* ones (mutant of reset)
reset_NoClear(cards, k) == shuffle(cards \o OrderedDeck, k)

\* Deck.reset
reset(cards, k) == initialize_deck(k)

\* draw_card reading the top card without popping it (mutant of draw_card)
draw_card_Peek(cards) ==
    IF cards # <<>>
    THEN [card |-> cards[Len(cards)], cards |-> cards]
    ELSE [card |-> None, cards |-> cards]

\* Deck.draw_card: the returned card and the list that is left
draw_card(cards) ==
    IF cards # <<>>
    THEN [card |-> cards[Len(cards)], cards |-> SubSeq(cards, 1, Len(cards) - 1)]
    ELSE [card |-> None, cards |-> cards]

cards_remaining(cards) == Len(cards)

\* AnimatedCard.__init__ (the flip_angle attribute, which __init__ and update
\* keep a function of to_deck, elapsed and duration, is the operator
\* flip_angle below and not a field of the record)
AnimatedCard(card, start_x, start_y, end_x, end_y, duration, to_deck) ==
    [card |-> card, start_x |-> start_x, start_y |-> start_y,
     end_x |-> end_x, end_y |-> end_y,
     duration |-> duration, elapsed |-> 0, to_deck |-> to_deck]

\* AnimatedCard.update
update(anim) == [anim EXCEPT !.elapsed = @ + 1]

\* is_complete with the comparison off by one (mutant of is_complete)
is_complete_Late(anim) == anim.elapsed > anim.duration

\* AnimatedCard.is_complete
is_complete(anim) == anim.elapsed >= anim.duration

(***************************************************************************)
(* Double-precision arithmetic, as far as AnimatedCard uses it.  A natural *)
(* number of any size is a sequence of limbs (digits in base 2^LimbBits),  *)
(* least significant first, without a leading zero limb.  A double that is *)
(* not negative is modelled by its 53-bit significand m, such a number     *)
(* with 2^52 <= m < 2^53, and the exponent lsb of its last bit: its value  *)
(* is m * 2^lsb; zero has the significand <<>>.  Every operation computes  *)
(* the exact result and rounds it to 53 bits, ties to even, as IEEE 754    *)
(* prescribes for / * and -.                                               *)
(***************************************************************************)
Base == 2^LimbBits

\* a number below Base^2 as limbs
Limbs(n) ==
    IF n = 0 THEN <<>>
    ELSE IF n < Base THEN <<n>>
    ELSE <<n % Base, n \div Base>>

\* the limbs without leading zero limbs
RECURSIVE Norm(_)
Norm(x) ==
    IF x # <<>> /\ x[Len(x)] = 0 THEN Norm(SubSeq(x, 1, Len(x) - 1)) ELSE x

\* the number of binary digits
BitLen(x) ==
    IF x = <<>> THEN 0
    ELSE LimbBits * (Len(x) - 1)
         + CHOOSE k \in 1..LimbBits : 2^(k - 1) <= x[Len(x)] /\ x[Len(x)] < 2^k

\* binary digit i (digit 0 is the last one)
BitAt(x, i) ==
    IF i \div LimbBits + 1 > Len(x) THEN 0
    ELSE (x[i \div LimbBits + 1] \div 2^(i % LimbBits)) % 2

\* x mod 2^s # 0
LowNonZero(x, s) ==
    \E i \in 0..(s - 1) : BitAt(x, i) = 1

\* floor(x / 2^s)
ShiftRight(x, s) ==
    LET a == s \div LimbBits
        b == s % LimbBits
    IN Norm([i \in 1..(Len(x) - a) |->
               x[i + a] \div 2^b
               + (IF i + a + 1 <= Len(x)
                  THEN (x[i + a + 1] % 2^b) * 2^(LimbBits - b)
                  ELSE 0)])

\* x * 2^s
ShiftLeft(x, s) ==
    LET a == s \div LimbBits
        b == s % LimbBits
    IN Norm([i \in 1..(Len(x) + a + 1) |->
               (IF a < i /\ i - a <= Len(x)
                THEN (x[i - a] % 2^(LimbBits - b)) * 2^b
                ELSE 0)
               + (IF a + 1 < i /\ i - a - 1 <= Len(x)
                  THEN x[i - a - 1] \div 2^(LimbBits - b)
                  ELSE 0)])

\* x * k + carry, for numbers k and carry below Base
RECURSIVE Mul(_, _, _)
Mul(x, k, carry) ==
    IF x = <<>> THEN Limbs(carry)
    ELSE <<(x[1] * k + carry) % Base>>
         \o Mul(Tail(x), k, (x[1] * k + carry) \div Base)

\* x - y - borrow, for x >= y + borrow
RECURSIVE Sub(_, _, _)
Sub(x, y, borrow) ==
    IF x = <<>> THEN <<>>
    ELSE LET t == x[1] - (IF y = <<>> THEN 0 ELSE y[1]) - borrow
         IN <<t % Base>>
            \o Sub(Tail(x), IF y = <<>> THEN y ELSE Tail(y),
                   IF t < 0 THEN 1 ELSE 0)

\* quotient and remainder of x by a number d below Base
RECURSIVE DivMod(_, _)
DivMod(x, d) ==
    IF x = <<>> THEN [q |-> <<>>, r |-> 0]
    ELSE LET high == DivMod(Tail(x), d)
             t == high.r * Base + x[1]
         IN [q |-> <<t \div d>> \o high.q, r |-> t % d]

FZero == [m |-> <<>>, lsb |-> 0]

\* the double nearest to x * 2^lsb (plus something in (0, 2^lsb) when
\* sticky), ties to even
Round(x, sticky, lsb) ==
    IF x = <<>> THEN FZero
    ELSE IF BitLen(x) <= Precision
    THEN [m |-> ShiftLeft(x, Precision - BitLen(x)),
          lsb |-> lsb - (Precision - BitLen(x))]
    ELSE LET s == BitLen(x) - Precision
             keep == ShiftRight(x, s)
             up == /\ BitAt(x, s - 1) = 1
                   /\ sticky \/ LowNonZero(x, s - 1) \/ BitAt(keep, 0) = 1
             r == IF up THEN Mul(keep, 1, 1) ELSE keep
         IN IF BitLen(r) > Precision
            THEN [m |-> ShiftRight(r, 1), lsb |-> lsb + s + 1]
            ELSE [m |-> r, lsb |-> lsb + s]

\* float(n) for a natural number n below Base^2
FromInt(n) == Round(Limbs(n), FALSE, 0)

\* a / d for natural numbers a and d >= 1 below Base (Python's true division)
FDiv(a, d) ==
    LET k == Precision + 2 + BitLen(Limbs(d))
        qr == DivMod(ShiftLeft(Limbs(a), k), d)
    IN Round(Norm(qr.q), qr.r # 0, -k)

\* f * k for a double f and a natural number k below Base
FMulInt(f, k) == Round(Norm(Mul(f.m, k, 0)), FALSE, f.lsb)

\* n - f for a natural number n and a double f with f <= n and f.lsb <= 0
FSubFromInt(n, f) ==
    Round(Norm(Sub(ShiftLeft(Limbs(n), -f.lsb), f.m, 0)), FALSE, f.lsb)

\* update with the two branches exchanged (mutant of flip_angle)
flip_angle_Swapped(anim) ==
    IF anim.elapsed = 0 THEN FromInt(IF anim.to_deck THEN 0 ELSE 180)
    ELSE IF anim.to_deck
         THEN FSubFromInt(180, FMulInt(FDiv(anim.elapsed, anim.duration), 180))
         ELSE FMulInt(FDiv(anim.elapsed, anim.duration), 180)

\* the flip_angle attribute: set by __init__ (elapsed 0) and then by every
\* update, which computes (elapsed / duration) * 180 in doubles
flip_angle(anim) ==
    IF anim.elapsed = 0 THEN FromInt(IF anim.to_deck THEN 0 ELSE 180)
    ELSE IF anim.to_deck
         THEN FMulInt(FDiv(anim.elapsed, anim.duration), 180)
         ELSE FSubFromInt(180, FMulInt(FDiv(anim.elapsed, anim.duration), 180))

\* get_position with "1 -" forgotten in the easing (mutant of get_position)
get_position_NoInvert(anim) ==
    LET den == anim.duration ^ 3
        eased == (anim.duration - anim.elapsed) ^ 3
    IN [x |-> [num |-> anim.start_x * den + (anim.end_x - anim.start_x) * eased,
               den |-> den],
        y |-> [num |-> anim.start_y * den + (anim.end_y - anim.start_y) * eased,
               den |-> den]]

\* AnimatedCard.get_position, each coordinate as the fraction num / den that
\* the doubles of the code round: progress is elapsed / duration and
\* eased_progress is 1 - (1 - progress)^3 = eased / duration^3
get_position(anim) ==
    LET den == anim.duration ^ 3
        eased == den - (anim.duration - anim.elapsed) ^ 3
    IN [x |-> [num |-> anim.start_x * den + (anim.end_x - anim.start_x) * eased,
               den |-> den],
        y |-> [num |-> anim.start_y * den + (anim.end_y - anim.start_y) * eased,
               den |-> den]]

\* the messages the handlers set
Msg(text, card) == [text |-> text, card |-> card]
MsgWelcome == Msg("Welcome to Card Game! Click 'Draw Card' to begin.", None)
MsgDrew(card) == Msg("You drew: ", card)
MsgNoCards == Msg("No cards left in deck!", None)
MsgShuffling == Msg("Shuffling cards back to deck...", None)
MsgReshuffled == Msg("Deck reshuffled! Cards returned to deck.", None)

VARIABLES
    deck,            \* deck.cards
    player_cards,    \* the hand
    animated_cards,  \* the in-flight AnimatedCard objects, in creation order
    message,
    shuffling,
    running,
    pc,              \* "frame": inside the while loop; "done": after it
    drawLog          \* history: cards drawn and not yet sent back by a
                     \* reshuffle command, in draw order

vars == <<deck, player_cards, animated_cards, message, shuffling, running, pc,
          drawLog>>

core == <<deck, player_cards, animated_cards>>

Init ==
    /\ \E k \in ShuffleOutcomes : deck = initialize_deck(k)
    /\ player_cards = <<>>
    /\ animated_cards = <<>>
    /\ message = MsgWelcome
    /\ shuffling = FALSE
    /\ running = TRUE
    /\ pc = "frame"
    /\ drawLog = <<>>

\* the toDeck / fromDeck animations of a list, in list order
FromDeck(anims) == SelectSeq(anims, LAMBDA a : ~a.to_deck)
ToDeck(anims) == SelectSeq(anims, LAMBDA a : a.to_deck)

CardsOf(anims) == [i \in 1..Len(anims) |-> anims[i].card]

\* the clicks the model explores while animations are in flight: those issued
\* when every in-flight animation has one of the ClickPhases sampled ages
ClickAges ==
    {(p * Duration + ClickPhases - 1) \div ClickPhases : p \in 0..(ClickPhases - 1)}

ClickExplored == \A i \in 1..Len(animated_cards) : animated_cards[i].elapsed \in ClickAges

\* the draws the model explores: within MaxInFlight, and concurrent with other
\* animations only near the top of the deck (any depth when nothing flies)
DrawExplored ==
    /\ Len(animated_cards) < MaxInFlight
    /\ ClickExplored
    /\ \/ animated_cards = <<>>
       \/ Len(OrderedDeck) - Len(deck) < MaxDrawn

\* the draw handler without the "if card:" test (mutant of Draw)
Draw_NoEmptyCheck ==
    /\ pc = "frame"
    /\ DrawExplored
    /\ LET r == draw_card(deck)
       IN /\ deck' = r.cards
          /\ animated_cards' =
               Append(animated_cards,
                      AnimatedCard(r.card, DECK_X, DECK_Y,
                                   HAND_X + (Len(player_cards) + Len(animated_cards)) * SLOT_W,
                                   HAND_Y, Duration, FALSE))
          /\ message' = MsgDrew(r.card)
          /\ drawLog' = Append(drawLog, r.card)
    /\ UNCHANGED <<player_cards, shuffling, running, pc>>

\* click on draw_button
Draw ==
    /\ pc = "frame"
    /\ LET r == draw_card(deck)
       IN IF r.card # None
          THEN /\ DrawExplored
               /\ deck' = r.cards
               /\ animated_cards' =
                    Append(animated_cards,
                           AnimatedCard(r.card, DECK_X, DECK_Y,
                                        HAND_X + (Len(player_cards) + Len(animated_cards)) * SLOT_W,
                                        HAND_Y, Duration, FALSE))
               /\ message' = MsgDrew(r.card)
               /\ drawLog' = Append(drawLog, r.card)
          ELSE /\ deck' = r.cards
               /\ message' = MsgNoCards
               /\ UNCHANGED <<animated_cards, drawLog>>
    /\ UNCHANGED <<player_cards, shuffling, running, pc>>

\* the reshuffle handler assigning the new animations to animated_cards
\* instead of appending them (mutant of Reshuffle)
Reshuffle_DropsInFlight ==
    /\ pc = "frame"
    /\ Len(animated_cards) + Len(player_cards) <= MaxInFlight
    /\ ClickExplored
    /\ shuffling' = TRUE
    /\ animated_cards' =
         [i \in 1..Len(player_cards) |->
            AnimatedCard(player_cards[i], HAND_X + (i - 1) * SLOT_W, HAND_Y,
                         DECK_X, DECK_Y, Duration, TRUE)]
    /\ player_cards' = <<>>
    /\ message' = MsgShuffling
    /\ drawLog' = <<>>
    /\ UNCHANGED <<deck, running, pc>>

\* the reshuffle handler resetting the deck at once when the hand is empty
\* (mutant of Reshuffle)
Reshuffle_ResetsOnEmptyHand ==
    /\ pc = "frame"
    /\ Len(animated_cards) + Len(player_cards) <= MaxInFlight
    /\ ClickExplored
    /\ shuffling' = TRUE
    /\ animated_cards' =
         animated_cards \o
         [i \in 1..Len(player_cards) |->
            AnimatedCard(player_cards[i], HAND_X + (i - 1) * SLOT_W, HAND_Y,
                         DECK_X, DECK_Y, Duration, TRUE)]
    /\ \E k \in ShuffleOutcomes :
         deck' = IF player_cards = <<>> THEN reset(deck, k) ELSE deck
    /\ player_cards' = <<>>
    /\ message' = MsgShuffling
    /\ drawLog' = SubSeq(drawLog, Len(drawLog) - Len(FromDeck(animated_cards)) + 1,
                         Len(drawLog))
    /\ UNCHANGED <<running, pc>>

\* the reshuffle handler counting the hand slots from 1, as with
\* enumerate(player_cards, 1) (mutant of Reshuffle)
Reshuffle_SlotOffByOne ==
    /\ pc = "frame"
    /\ Len(animated_cards) + Len(player_cards) <= MaxInFlight
    /\ ClickExplored
    /\ shuffling' = TRUE
    /\ animated_cards' =
         animated_cards \o
         [i \in 1..Len(player_cards) |->
            AnimatedCard(player_cards[i], HAND_X + i * SLOT_W, HAND_Y,
                         DECK_X, DECK_Y, Duration, TRUE)]
    /\ player_cards' = <<>>
    /\ message' = MsgShuffling
    /\ drawLog' = SubSeq(drawLog, Len(drawLog) - Len(FromDeck(animated_cards)) + 1,
                         Len(drawLog))
    /\ UNCHANGED <<deck, running, pc>>

\* click on reshuffle_button
Reshuffle ==
    /\ pc = "frame"
    /\ Len(animated_cards) + Len(player_cards) <= MaxInFlight
    /\ ClickExplored
    /\ shuffling' = TRUE
    /\ animated_cards' =
         animated_cards \o
         [i \in 1..Len(player_cards) |->
            AnimatedCard(player_cards[i], HAND_X + (i - 1) * SLOT_W, HAND_Y,
                         DECK_X, DECK_Y, Duration, TRUE)]
    /\ player_cards' = <<>>
    /\ message' = MsgShuffling
    /\ drawLog' = SubSeq(drawLog, Len(drawLog) - Len(FromDeck(animated_cards)) + 1,
                         Len(drawLog))
    /\ UNCHANGED <<deck, running, pc>>

\* click on quit_button, or the window's QUIT event
Quit ==
    /\ pc = "frame"
    /\ running
    /\ running' = FALSE
    /\ UNCHANGED <<deck, player_cards, animated_cards, message, shuffling, pc,
                   drawLog>>

\* any(...) in place of all(...) (mutant of AllComplete)
AllComplete_Any(anims) == \E i \in 1..Len(anims) : is_complete(anims[i])

\* all(a.is_complete() for a in animated_cards)
AllComplete(anims) == \A i \in 1..Len(anims) : is_complete(anims[i])

RemoveAt(s, j) == SubSeq(s, 1, j - 1) \o SubSeq(s, j + 1, Len(s))

\* the commit inserting the landed card at the front of the hand
\* (mutant of Commit)
Commit_Prepend(st, j, k) ==
    LET anim == st.animated_cards[j]
        st1 == IF anim.to_deck
               THEN IF AllComplete(st.animated_cards)
                    THEN [st EXCEPT !.deck = reset(st.deck, k),
                                    !.shuffling = FALSE,
                                    !.message = MsgReshuffled]
                    ELSE st
               ELSE [st EXCEPT !.player_cards = <<anim.card>> \o @]
    IN [st1 EXCEPT !.animated_cards = RemoveAt(@, j)]

\* the body of "if anim.is_complete():" for the animation at position j of
\* the live list; k is the outcome of the shuffle inside deck.reset()
Commit(st, j, k) ==
    LET anim == st.animated_cards[j]
        st1 == IF anim.to_deck
               THEN IF AllComplete(st.animated_cards)
                    THEN [st EXCEPT !.deck = reset(st.deck, k),
                                    !.shuffling = FALSE,
                                    !.message = MsgReshuffled]
                    ELSE st
               ELSE [st EXCEPT !.player_cards = Append(@, anim.card)]
    IN [st1 EXCEPT !.animated_cards = RemoveAt(@, j)]

\* the loop body testing is_complete() before update(), so that an animation
\* is committed in the tick after the one that completes it (mutant of
\* UpdateLoop)
RECURSIVE UpdateLoop_CheckFirst(_, _, _)
UpdateLoop_CheckFirst(st, j, k) ==
    IF j > Len(st.animated_cards)
    THEN st
    ELSE IF is_complete(st.animated_cards[j])
         THEN UpdateLoop_CheckFirst(Commit(st, j, k), j, k)
         ELSE UpdateLoop_CheckFirst([st EXCEPT !.animated_cards[j] = update(@)],
                                    j + 1, k)

\* "for anim in animated_cards[:]": the animations not yet visited are the
\* ones from position j on of the live list, since the body removes only
\* the animation it is visiting
RECURSIVE UpdateLoop(_, _, _)
UpdateLoop(st, j, k) ==
    IF j > Len(st.animated_cards)
    THEN st
    ELSE LET st1 == [st EXCEPT !.animated_cards[j] = update(@)]
         IN IF is_complete(st1.animated_cards[j])
            THEN UpdateLoop(Commit(st1, j, k), j, k)
            ELSE UpdateLoop(st1, j + 1, k)

\* the "Update animations" part of one frame, then the loop test
Tick ==
    /\ pc = "frame"
    /\ \E k \in ShuffleOutcomes :
         LET st == UpdateLoop([deck |-> deck, player_cards |-> player_cards,
                               animated_cards |-> animated_cards,
                               shuffling |-> shuffling, message |-> message], 1, k)
         IN /\ deck' = st.deck
            /\ player_cards' = st.player_cards
            /\ animated_cards' = st.animated_cards
            /\ shuffling' = st.shuffling
            /\ message' = st.message
    /\ pc' = IF running THEN "frame" ELSE "done"
    /\ UNCHANGED <<running, drawLog>>

Next == Draw \/ Reshuffle \/ Quit \/ Tick

Spec == Init /\ [][Next]_vars

\* every iteration of "while running:" runs the update loop, so a tick that
\* can change the state is eventually taken
FairSpec == Spec /\ WF_vars(Tick)

(***************************************************************************)
(* The AnimatedCard class on its own: one object, constructed the two ways *)
(* the handlers construct it but with any duration, and updated until it   *)
(* is complete.                                                            *)
(***************************************************************************)
AnimInit ==
    /\ \E duration \in 1..MaxAnimDuration, slot \in 0..MaxSlot, to_deck \in BOOLEAN :
          animated_cards =
            <<IF to_deck
              THEN AnimatedCard(OrderedDeck[1], HAND_X + slot * SLOT_W, HAND_Y,
                                DECK_X, DECK_Y, duration, TRUE)
              ELSE AnimatedCard(OrderedDeck[1], DECK_X, DECK_Y,
                                HAND_X + slot * SLOT_W, HAND_Y, duration, FALSE)>>
    /\ deck = <<>>
    /\ player_cards = <<>>
    /\ message = MsgWelcome
    /\ shuffling = FALSE
    /\ running = TRUE
    /\ pc = "frame"
    /\ drawLog = <<>>

AnimUpdate ==
    /\ ~is_complete(animated_cards[1])
    /\ animated_cards' = <<update(animated_cards[1])>>
    /\ UNCHANGED <<deck, player_cards, message, shuffling, running, pc, drawLog>>

AnimNext == AnimUpdate

AnimSpec == AnimInit /\ [][AnimNext]_vars

(***************************************************************************)
(* Vocabulary of the properties.                                           *)
(***************************************************************************)
IsPrefix(s, t) == Len(s) <= Len(t) /\ SubSeq(t, 1, Len(s)) = s

\* A step of Tick that found animations in flight: Tick advances or removes
\* the first animation, while the event handlers only append to the list.
TickStep == animated_cards # <<>> /\ ~IsPrefix(animated_cards, animated_cards')

\* A step that executed deck.reset(): only the reset branch sets this message,
\* and every toDeck animation is created by a handler that overwrites it.
DeckResetStep == message # MsgReshuffled /\ message' = MsgReshuffled

\* A step of the draw handler that got a card.
DrawStep == Len(deck') = Len(deck) - 1

\* animations that reach their duration in the coming tick
Completing(a) == a.elapsed + 1 >= a.duration

AllCards == deck \o player_cards \o CardsOf(animated_cards)

NoDuplicates(s) == \A i, j \in 1..Len(s) : i # j => s[i] # s[j]

(***************************************************************************)
(* C1 (conservation): in every reachable state the number of cards in the  *)
(* deck plus the number in the hand plus the number of in-flight           *)
(* animations is 52.                                                       *)
(***************************************************************************)
C1_Conservation ==
    cards_remaining(deck) + Len(player_cards) + Len(animated_cards) = 52

(***************************************************************************)
(* C2: in every tick in which the toDeck animations of a reshuffle batch   *)
(* complete (all animations of a batch are created in one step and so      *)
(* complete together), the deck is reset, whatever else is in flight.      *)
(***************************************************************************)
C2_ResetWhenBatchCompletes ==
    [][(TickStep /\ \E i \in 1..Len(animated_cards) :
                       animated_cards[i].to_deck /\ Completing(animated_cards[i]))
       => DeckResetStep]_vars

(***************************************************************************)
(* C3 (reshuffle barrier, safety): a step that resets the deck is a tick   *)
(* in which every toDeck animation that was in flight completes; none is   *)
(* left in flight after it.                                                *)
(***************************************************************************)
C3_ResetOnlyAfterBatch ==
    [][DeckResetStep =>
         /\ TickStep
         /\ \E i \in 1..Len(animated_cards) : animated_cards[i].to_deck
         /\ \A i \in 1..Len(animated_cards) :
              animated_cards[i].to_deck => Completing(animated_cards[i])
         /\ ToDeck(animated_cards') = <<>>]_vars

\* the deck has just been reset by a completed batch
C3_Witness ==
    /\ message = MsgReshuffled
    /\ animated_cards = <<>>
    /\ cards_remaining(deck) = Len(OrderedDeck)

(***************************************************************************)
(* C4: right after a step that resets the deck, the deck holds 52 cards    *)
(* and the hand is empty.                                                  *)
(***************************************************************************)
C4_AfterResetFullDeckEmptyHand ==
    [][DeckResetStep =>
         cards_remaining(deck') = 52 /\ player_cards' = <<>>]_vars

(***************************************************************************)
(* C5 (exclusive ownership): in every reachable state no card occurs twice *)
(* among the deck, the hand and the in-flight animations taken together.   *)
(***************************************************************************)
C5_ExclusiveOwnership == NoDuplicates(AllCards)

(***************************************************************************)
(* C6: on an empty deck draw_card returns None and leaves the deck empty;  *)
(* the draw handler then only sets the "no cards" message: the deck, the   *)
(* hand and the in-flight set are unchanged, and no step taken from an     *)
(* empty deck adds a fromDeck animation.                                   *)
(***************************************************************************)
C6_DrawOnEmptyDeck ==
    [][deck = <<>> =>
         /\ draw_card(deck) = [card |-> None, cards |-> <<>>]
         /\ (message' = MsgNoCards /\ message # MsgNoCards => UNCHANGED core)
         /\ (\A c \in Cards : message' = MsgDrew(c) => message = MsgDrew(c))
         /\ Len(FromDeck(animated_cards')) <= Len(FromDeck(animated_cards))]_vars

\* the draw handler has run on an empty deck
C6_Witness ==
    /\ deck = <<>>
    /\ message = MsgNoCards
    /\ Len(player_cards) = Len(OrderedDeck)

(***************************************************************************)
(* C7: a draw that gets a card takes the top card off the deck, leaves the *)
(* hand as it is and appends a fresh fromDeck animation; in each tick      *)
(* exactly the fromDeck animations whose elapsed reaches 30 are appended   *)
(* to the end of the hand (in list order) and leave the in-flight set,     *)
(* while the others stay in flight one tick older.  Between steps every    *)
(* in-flight fromDeck animation has elapsed < 30.                          *)
(***************************************************************************)
C7_DrawThenLandAfter30 ==
    [][/\ \A i \in 1..Len(animated_cards) :
            ~animated_cards[i].to_deck => animated_cards[i].elapsed < 30
       /\ DrawStep =>
            /\ deck' = SubSeq(deck, 1, Len(deck) - 1)
            /\ player_cards' = player_cards
            /\ Len(animated_cards') = Len(animated_cards) + 1
            /\ IsPrefix(animated_cards, animated_cards')
            /\ LET a == animated_cards'[Len(animated_cards')]
               IN a.card = deck[Len(deck)] /\ a.elapsed = 0 /\ ~a.to_deck
       /\ TickStep =>
            LET from == FromDeck(animated_cards)
                landing == SelectSeq(from, LAMBDA a : a.elapsed + 1 = 30)
                staying == SelectSeq(from, LAMBDA a : a.elapsed + 1 < 30)
            IN /\ player_cards' = player_cards \o CardsOf(landing)
               /\ FromDeck(animated_cards') =
                    [i \in 1..Len(staying) |->
                        [staying[i] EXCEPT !.elapsed = @ + 1]]]_vars

\* one draw on a fresh deck, landed: hand of 1, deck of 51, nothing in flight
C7_Witness ==
    /\ cards_remaining(deck) = 51
    /\ Len(player_cards) = 1
    /\ animated_cards = <<>>
    /\ message = MsgDrew(player_cards[1])

(***************************************************************************)
(* C8: the hand followed by the cards of the in-flight fromDeck animations *)
(* (in creation order) is the sequence of cards drawn, in draw order: the  *)
(* cards land in the hand in the order they were drawn.                    *)
(***************************************************************************)
C8_HandInDrawOrder ==
    player_cards \o CardsOf(FromDeck(animated_cards)) = drawLog

\* two different cards have landed
C8_Witness ==
    /\ Len(player_cards) = 2
    /\ player_cards[1] # player_cards[2]
    /\ animated_cards = <<>>

(***************************************************************************)
(* C9 (no cancellation): a step that is not a tick keeps every in-flight   *)
(* animation as it is; a tick makes every in-flight animation one tick     *)
(* older and removes exactly those that reach their duration, appending    *)
(* the cards of the completed fromDeck ones to the hand; and a tick is     *)
(* possible in every state of the loop.  With a tick in every frame, the   *)
(* in-flight set is empty again and again (or the loop has ended), so      *)
(* every animation added to it has completed and been committed.           *)
(***************************************************************************)
C9_NoCancellation ==
    /\ []<>(animated_cards = <<>> \/ pc = "done")
    /\ [][/\ pc = "frame" => ENABLED Tick
          /\ ~TickStep => IsPrefix(animated_cards, animated_cards')
          /\ TickStep =>
               LET staying == SelectSeq(animated_cards, LAMBDA a : ~Completing(a))
                   landing == SelectSeq(animated_cards,
                                        LAMBDA a : Completing(a) /\ ~a.to_deck)
               IN /\ animated_cards' =
                       [i \in 1..Len(staying) |->
                           [staying[i] EXCEPT !.elapsed = @ + 1]]
                  /\ player_cards' = player_cards \o CardsOf(landing)]_vars

\* a reshuffle was issued while a draw was in flight, and that draw landed
C9_Witness ==
    /\ Len(player_cards) = 1
    /\ Len(animated_cards) = 1
    /\ animated_cards[1].to_deck
    /\ animated_cards[1].elapsed < 30
    /\ message = MsgShuffling

(***************************************************************************)
(* C10: a reshuffle command issued with an empty hand leaves the deck, the *)
(* hand and the in-flight set unchanged; and the deck is reset only in a   *)
(* step that had a toDeck animation in flight, which such a command does   *)
(* not create.                                                             *)
(***************************************************************************)
C10_ReshuffleEmptyHandNoOp ==
    [][/\ (player_cards = <<>> /\ message # MsgShuffling /\ message' = MsgShuffling)
            => UNCHANGED core
       /\ (player_cards = <<>> /\ ~TickStep) => UNCHANGED <<deck, player_cards>>
                                               \/ DrawStep
       /\ DeckResetStep => ToDeck(animated_cards) # <<>>]_vars

\* the reshuffle handler has run on an empty hand with nothing in flight
C10_Witness ==
    /\ message = MsgShuffling
    /\ shuffling
    /\ player_cards = <<>>
    /\ animated_cards = <<>>

\* a deck of the 52 cards, each once
IsFullDeck(cards) ==
    /\ cards_remaining(cards) = 52
    /\ {cards[i] : i \in 1..Len(cards)} = Cards
    /\ Cardinality(Cards) = 4 * 13
    /\ NoDuplicates(cards)

(***************************************************************************)
(* C11 (deck completeness): the deck built by Deck() and the deck left by  *)
(* every deck.reset(), whatever it held before, has 52 cards that are      *)
(* exactly the 4 x 13 suit/rank combinations, each once.                   *)
(***************************************************************************)
C11_DeckCompleteness ==
    /\ IsFullDeck(deck)
    /\ [][DeckResetStep => IsFullDeck(deck')]_vars

\* the deck has just been reset, and a card drawn before the reset is in the
\* hand
C11_Witness ==
    /\ message = MsgReshuffled
    /\ IsFullDeck(deck)
    /\ player_cards # <<>>

(***************************************************************************)
(* C12 (draw monotonicity): cards_remaining() is always within 0..52; on a *)
(* non-empty deck draw_card returns the top card, which is one of the 52   *)
(* cards, and leaves one card fewer; on an empty deck it returns None and  *)
(* leaves the deck empty.  In the game loop the deck only changes by such  *)
(* a draw or by a reset, so from the full deck the count goes 52, 51, ..., *)
(* 0 and then stays 0 under further draws.                                 *)
(***************************************************************************)
C12_DrawMonotonicity ==
    [][/\ cards_remaining(deck) \in 0..52
       /\ deck # <<>> =>
            /\ draw_card(deck).card = deck[Len(deck)]
            /\ draw_card(deck).card \in Cards
            /\ cards_remaining(draw_card(deck).cards) = cards_remaining(deck) - 1
       /\ deck = <<>> =>
            /\ draw_card(deck).card = None
            /\ cards_remaining(draw_card(deck).cards) = 0
       /\ \/ deck' = deck
          \/ DeckResetStep
          \/ /\ deck # <<>>
             /\ deck' = draw_card(deck).cards
             /\ message' = MsgDrew(draw_card(deck).card)]_vars

\* the 52nd draw from one deck: the deck is empty and its last card flies
C12_Witness ==
    /\ deck = <<>>
    /\ Len(player_cards) = 51
    /\ Len(animated_cards) = 1
    /\ message = MsgDrew(animated_cards[1].card)

\* the position p is exactly the point (x, y)
AtPoint(p, x, y) == p.x.num = x * p.x.den /\ p.y.num = y * p.y.den

(***************************************************************************)
(* C13 (animation completion law): for an AnimatedCard of duration D >= 1, *)
(* is_complete() is false at every elapsed in 0..D-1 and true at elapsed   *)
(* D; get_position() is exactly the start point at elapsed 0 and exactly   *)
(* the end point at elapsed D (progress is then exactly 0.0 and 1.0, on    *)
(* which the doubles of the easing formula are exact).                     *)
(***************************************************************************)
C13_CompletionLaw ==
    \A i \in 1..Len(animated_cards) :
        LET a == animated_cards[i]
        IN /\ a.duration >= 1
           /\ a.elapsed \in 0..(a.duration - 1) => ~is_complete(a)
           /\ a.elapsed = a.duration => is_complete(a)
           /\ a.elapsed = 0 =>
                /\ FDiv(a.elapsed, a.duration) = FZero
                /\ AtPoint(get_position(a), a.start_x, a.start_y)
           /\ a.elapsed = a.duration =>
                /\ FDiv(a.elapsed, a.duration) = FromInt(1)
                /\ AtPoint(get_position(a), a.end_x, a.end_y)

\* a draw animation of the game's duration to hand slot 1 has been updated
\* to completion
C13_Witness ==
    /\ Len(animated_cards) = 1
    /\ animated_cards[1].duration = Duration
    /\ animated_cards[1].elapsed = Duration
    /\ ~animated_cards[1].to_deck
    /\ animated_cards[1].end_x = HAND_X + SLOT_W
    /\ is_complete(animated_cards[1])

\* the number as an integer, when it is small enough to be one
RECURSIVE Small(_)
Small(x) == IF x = <<>> THEN 0 ELSE x[1] + Base * Small(Tail(x))

\* f <= g for doubles
FLe(f, g) ==
    \/ f = FZero
    \/ /\ g # FZero
       /\ \/ f.lsb < g.lsb
          \/ /\ f.lsb = g.lsb
             /\ \A i \in 1..Len(f.m) :
                   f.m[i] > g.m[i] => \E j \in (i + 1)..Len(f.m) : f.m[j] < g.m[j]

\* floor(f * 2^k) for a double f below 2^(31 - k)
Scaled(f, k) ==
    IF f.lsb + k >= 0 THEN Small(ShiftLeft(f.m, f.lsb + k))
    ELSE Small(ShiftRight(f.m, -(f.lsb + k)))

\* the double f is exactly the fraction num / den (f.lsb <= 0)
IsExactly(f, num, den) ==
    Norm(Mul(f.m, den, 0)) = ShiftLeft(Limbs(num), -f.lsb)

\* the double f is within 2^-16 of the fraction num / den
IsNear(f, num, den) ==
    Scaled(f, 16) - (num * 2^16) \div den \in {-1, 0, 1}

\* the numerator over anim.duration of the linear law
FlipLawNum(anim) ==
    IF anim.to_deck THEN 180 * anim.elapsed
    ELSE 180 * anim.duration - 180 * anim.elapsed

\* the angle is within [0, 180]: neither (elapsed / duration) * 180, which
\* the fromDeck branch subtracts from 180, nor the angle exceeds 180
FlipInRange(anim) ==
    /\ FLe(FMulInt(FDiv(anim.elapsed, anim.duration), 180), FromInt(180))
    /\ FLe(flip_angle(anim), FromInt(180))

\* the angle is within [0, 180] and is the linear law's value
FlipExact(anim) ==
    /\ FlipInRange(anim)
    /\ IsExactly(flip_angle(anim), FlipLawNum(anim), anim.duration)

\* the angle is within [0, 180] and is the linear law's value up to rounding
FlipRounded(anim) ==
    /\ FlipInRange(anim)
    /\ IF anim.elapsed = 21
       THEN IsNear(flip_angle(anim), FlipLawNum(anim), anim.duration)
       ELSE IsExactly(flip_angle(anim), FlipLawNum(anim), anim.duration)

\* the two laws for the animations of the game loop, whose duration is
\* Duration, by kind and elapsed
FlipExactAt ==
    [to_deck \in BOOLEAN |-> [elapsed \in 0..Duration |->
        FlipExact([to_deck |-> to_deck, elapsed |-> elapsed, duration |-> Duration])]]

FlipRoundedAt ==
    [to_deck \in BOOLEAN |-> [elapsed \in 0..Duration |->
        FlipRounded([to_deck |-> to_deck, elapsed |-> elapsed, duration |-> Duration])]]

\* the animations of the list as they are between two ticks and, those that
\* complete in the next tick, as their last update leaves them
Observed(anims) ==
    {anims[i] : i \in 1..Len(anims)}
    \cup {update(anims[i]) : i \in {j \in 1..Len(anims) : Completing(anims[j])}}

(***************************************************************************)
(* C14 (flip law, as the spec states it): every animation of the game loop *)
(* has, at construction and after each update, a flip angle within         *)
(* [0, 180] that equals 180 * elapsed / D (toDeck) or 180 - 180 * elapsed  *)
(* / D (fromDeck) exactly.                                                 *)
(***************************************************************************)
C14_FlipLaw ==
    \A anim \in Observed(animated_cards) :
        /\ anim.duration = Duration
        /\ FlipExactAt[anim.to_deck][anim.elapsed]

(***************************************************************************)
(* C14 (flip law, as the code has it): the flip angle is within [0, 180]   *)
(* and equals the linear law up to the rounding of (elapsed / D) * 180 in  *)
(* doubles: exactly at every elapsed but 21, and to within 2^-16 degree at *)
(* elapsed 21 (21 / 30 is rounded down, and 0.7 * 180 is not 126).         *)
(***************************************************************************)
C14_FlipLawRounded ==
    \A anim \in Observed(animated_cards) :
        /\ anim.duration = Duration
        /\ FlipRoundedAt[anim.to_deck][anim.elapsed]

\* a toDeck and a fromDeck animation are in flight and one of them is at
\* elapsed 21, where its angle is not the linear law's
C14_Witness ==
    \E i, j \in 1..Len(animated_cards) :
        /\ animated_cards[i].to_deck
        /\ ~animated_cards[j].to_deck
        /\ \E k \in {i, j} :
              /\ animated_cards[k].elapsed = 21
              /\ FlipRounded(animated_cards[k])
              /\ ~FlipExact(animated_cards[k])

\* the cards whose display form is on the screen: the hand, the animations
\* and the card of the "You drew" message
Shown ==
    {player_cards[i] : i \in 1..Len(player_cards)}
    \cup {animated_cards[i].card : i \in 1..Len(animated_cards)}
    \cup ({message.card} \ {None})

RankSymbols ==
    {<<"A">>, <<"2">>, <<"3">>, <<"4">>, <<"5">>, <<"6">>, <<"7">>, <<"8">>,
     <<"9">>, <<"1", "0">>, <<"J">>, <<"Q">>, <<"K">>}
SuitSymbols == {"U+2665", "U+2666", "U+2663", "U+2660"}

\* the form is a rank symbol followed by a suit symbol, and no other card has it
IsDisplayForm(card) ==
    /\ Len(repr(card)) >= 2
    /\ SubSeq(repr(card), 1, Len(repr(card)) - 1) \in RankSymbols
    /\ repr(card)[Len(repr(card))] \in SuitSymbols
    /\ \A other \in Cards : other # card => repr(other) # repr(card)

\* by card: the form is a display form of two characters
TwoCharacterForm ==
    [card \in Cards |-> IsDisplayForm(card) /\ Len(repr(card)) = 2]

\* by card: the form is a display form of two characters, of three for a ten
DisplayForm ==
    [card \in Cards |->
        /\ IsDisplayForm(card)
        /\ Len(repr(card)) = IF card.rank = "TEN" THEN 3 ELSE 2]

(***************************************************************************)
(* C15 (display form, as the spec states it): every card has a display     *)
(* form of two characters, its rank symbol followed by its suit symbol,    *)
(* and distinct cards have distinct forms.                                 *)
(***************************************************************************)
C15_TwoCharacterForm ==
    \A card \in Shown : card \in Cards /\ TwoCharacterForm[card]

(***************************************************************************)
(* C15 (display form, as the code has it): every card has a display form,  *)
(* its rank symbol followed by its suit symbol, of two characters except   *)
(* for the four tens, whose rank symbol "10" makes three; distinct cards   *)
(* have distinct forms.                                                    *)
(***************************************************************************)
C15_DisplayForm ==
    \A card \in Shown : card \in Cards /\ DisplayForm[card]

\* a ten has just been drawn and its form is in the message
C15_Witness ==
    /\ message.card \in Cards
    /\ message.card.rank = "TEN"
    /\ Len(repr(message.card)) = 3
    /\ Cardinality(Shown) >= 2

\* a tick that advances every animation first and commits afterwards resets
\* the deck exactly when a toDeck animation completes and every animation in
\* flight completes with it
TwoPhaseResets(anims) ==
    /\ \E i \in 1..Len(anims) : anims[i].to_deck /\ Completing(anims[i])
    /\ \A i \in 1..Len(anims) : Completing(anims[i])

SlotOf(x) == (x - HAND_X) \div SLOT_W

(***************************************************************************)
(* C17 (draw slot): the animation a draw creates flies to the hand slot    *)
(* whose index is the size of the hand plus the number of fromDeck         *)
(* animations in flight when the draw is issued; toDeck animations in      *)
(* flight do not count.                                                    *)
(***************************************************************************)
C17_DrawSlot ==
    [][DrawStep =>
         LET anim == animated_cards'[Len(animated_cards')]
         IN /\ ~anim.to_deck
            /\ anim.end_x = HAND_X + SlotOf(anim.end_x) * SLOT_W
            /\ SlotOf(anim.end_x) =
                 Len(player_cards) + Len(FromDeck(animated_cards))]_vars

\* a step that empties a hand or puts toDeck animations in flight
ReshuffleStep ==
    \/ player_cards # <<>> /\ player_cards' = <<>>
    \/ /\ Len(animated_cards') > Len(animated_cards)
       /\ animated_cards'[Len(animated_cards')].to_deck

(***************************************************************************)
(* C18 (reshuffle): a reshuffle of a hand of k >= 1 cards adds exactly k   *)
(* toDeck animations in one step, the i-th for the i-th hand card, from    *)
(* hand slot i (counted from 0) to the deck anchor, with elapsed 0; it     *)
(* empties the hand in the same step and leaves the deck and the           *)
(* animations already in flight as they are.                               *)
(***************************************************************************)
C18_Reshuffle ==
    [][ReshuffleStep =>
         /\ Len(player_cards) >= 1
         /\ Len(animated_cards') = Len(animated_cards) + Len(player_cards)
         /\ IsPrefix(animated_cards, animated_cards')
         /\ \A i \in 1..Len(player_cards) :
               animated_cards'[Len(animated_cards) + i] =
                 [card |-> player_cards[i],
                  start_x |-> HAND_X + (i - 1) * SLOT_W, start_y |-> HAND_Y,
                  end_x |-> DECK_X, end_y |-> DECK_Y,
                  duration |-> Duration, elapsed |-> 0, to_deck |-> TRUE]
         /\ player_cards' = <<>>
         /\ deck' = deck]_vars

\* a hand of two cards has just been reshuffled
C18_Witness ==
    /\ player_cards = <<>>
    /\ Len(animated_cards) = 2
    /\ \A i \in 1..2 :
          /\ animated_cards[i].to_deck
          /\ animated_cards[i].elapsed = 0
          /\ SlotOf(animated_cards[i].start_x) = i - 1
    /\ message = MsgShuffling

\* the animations of a list that the next tick does not complete, advanced
Advanced(anims) ==
    LET going == SelectSeq(anims, LAMBDA a : ~Completing(a))
    IN [i \in 1..Len(going) |-> [going[i] EXCEPT !.elapsed = @ + 1]]

(***************************************************************************)
(* C19 (single commit): between ticks every animation in flight has        *)
(* 0 <= elapsed < duration.  A tick removes exactly the animations whose   *)
(* elapsed reaches their duration in it, committing each fromDeck one of   *)
(* them to the hand once, and advances the others by one; no other step    *)
(* changes an animation in flight, and what a step adds has elapsed 0: no  *)
(* animation is advanced after it has completed or is in flight again.     *)
(***************************************************************************)
C19_SingleCommit ==
    [][/\ \A i \in 1..Len(animated_cards) :
             /\ 0 <= animated_cards[i].elapsed
             /\ animated_cards[i].elapsed < animated_cards[i].duration
       /\ \A i \in 1..Len(animated_cards') :
             animated_cards'[i].elapsed < animated_cards'[i].duration
       /\ TickStep =>
             /\ animated_cards' = Advanced(animated_cards)
             /\ player_cards' =
                  player_cards
                  \o CardsOf(SelectSeq(FromDeck(animated_cards), Completing))
       /\ ~TickStep =>
             \A i \in (Len(animated_cards) + 1)..Len(animated_cards') :
                 animated_cards'[i].elapsed = 0]_vars

\* one of two animations has been committed and removed, the other is one
\* tick from completing
C19_Witness ==
    /\ Len(player_cards) = 1
    /\ Len(animated_cards) = 1
    /\ Completing(animated_cards[1])
    /\ ~animated_cards[1].to_deck
    /\ drawLog = player_cards \o <<animated_cards[1].card>>

(***************************************************************************)
(* C20 (landing consistency): the hand slot a fromDeck animation flies to  *)
(* is the index at which its card is appended to the hand when it          *)
(* completes, whatever draws, reshuffles and ticks come in between; no two *)
(* cards in the hand or flying to it have the same slot.                   *)
(***************************************************************************)
C20_LandingConsistency ==
    [][/\ \A i \in 1..Len(FromDeck(animated_cards)) :
             /\ SlotOf(FromDeck(animated_cards)[i].end_x) >= Len(player_cards)
             /\ \A j \in 1..(i - 1) :
                   SlotOf(FromDeck(animated_cards)[j].end_x)
                     # SlotOf(FromDeck(animated_cards)[i].end_x)
       /\ TickStep =>
             LET landing == SelectSeq(FromDeck(animated_cards), Completing)
             IN \A n \in 1..Len(landing) :
                    /\ player_cards'[Len(player_cards) + n] = landing[n].card
                    /\ SlotOf(landing[n].end_x) = Len(player_cards) + n - 1]_vars
====
